---- MODULE Spec2Model ----
(***************************************************************************)
(* A model of src/offset_estimator.rs: the LCG random generator, the Gamma *)
(* parameter estimator, the Marsaglia-Tsang variate generator, the QQ      *)
(* regression and the estimate() pipeline.                                 *)
(*                                                                         *)
(* Numbers.  TLC's integers are 32 bits wide, the program's are u64 and    *)
(* f64.  A u64 (and every wider intermediate) is a BigNat: a little-endian *)
(* sequence of limbs in base 2^14 without high zero limbs, so u64 and f64  *)
(* arithmetic is carried out at full width.  An f64 is a record            *)
(*    [cls, neg, man, exp]                                                 *)
(* cls = "num": the value (-1)^neg * man * 2^exp with man = 0 (exp = 0) or *)
(*              2^52 <= man < 2^53 ; cls = "inf": signed infinity ;        *)
(*              cls = "nan": NaN.                                          *)
(* +, -, *, / and sqrt round to nearest, ties to even, as IEEE-754 binary64*)
(* does.  The exponent is unbounded (no overflow to infinity, no           *)
(* subnormals): the bounded inputs of this model stay far from both ends.  *)
(* libm::log is modelled as the correctly rounded natural logarithm;       *)
(* libm::pow(x, 2.0) as the correctly rounded square.                      *)
(*                                                                         *)
(* Calls.  One function of the program calls another through               *)
(* Call(name, arguments), the table of the modelled functions defined      *)
(* after the last of them.  The syntax tree TLC expands for an action is   *)
(* then the sum of the definitions it reaches, not the product of their    *)
(* call sites.  f64_add, f64_mul, f64_div, libm_sqrt and libm_log are the  *)
(* calls of ieee_add, ieee_mul, ieee_div, ieee_sqrt and rounded_log.       *)
(***************************************************************************)
EXTENDS Integers, Sequences, FiniteSets, TLC

VARIABLES
    rng1, rng2,  \* two LcgRng instances built from the same seed
    script,      \* the draw operations applied to rng1 so far
    out1, out2,  \* what each instance's draws did, oldest first
    g_cfg,       \* the sample under regression: given, or [alpha, beta, n, seed]
    g_rng,       \* the generator of generate_random_gamma_values
    g_pc,        \* where the generation stands: "polar", "body", "sort", "done"
    g_x,         \* the normal deviate the polar loop returned last
    g_vals,      \* the variates collected so far
    g_rejected,  \* whether a pass of a rejection loop has been rejected
    g_passes,    \* the passes of the rejection loops spent on the current variate
    g_offset,    \* the value of estimate_offset(v, v)
    est_in,      \* the arguments of the next call of estimate
    calls        \* the calls of estimate that returned, oldest first

rngVars == <<rng1, rng2, script, out1, out2>>
genVars == <<g_cfg, g_rng, g_pc, g_x, g_vals, g_rejected, g_passes, g_offset>>
estVars == <<est_in, calls>>
vars == <<rngVars, genVars, estVars>>

RECURSIVE Call(_, _)

(***************************************************************************)
(* BigNat: unbounded naturals as limb sequences                            *)
(***************************************************************************)
LimbBits == 7 + 7
Base == 2^LimbBits

RECURSIVE BNorm(_)
BNorm(a) ==
    IF a = <<>> THEN a
    ELSE IF a[Len(a)] = 0 THEN BNorm(SubSeq(a, 1, Len(a) - 1))
    ELSE a

BLimb(a, i) == IF i >= 1 /\ i <= Len(a) THEN a[i] ELSE 0


RECURSIVE BFromNat(_)
BFromNat(n) == IF n = 0 THEN <<>> ELSE <<n % Base>> \o BFromNat(n \div Base)

RECURSIVE BToNat(_)
BToNat(a) == IF a = <<>> THEN 0 ELSE a[1] + Base * BToNat(Tail(a))

RECURSIVE BAddC(_, _, _, _, _)
BAddC(a, b, i, carry, acc) ==
    IF i > Len(a) /\ i > Len(b)
    THEN (IF carry = 0 THEN acc ELSE Append(acc, carry))
    ELSE LET t == BLimb(a, i) + BLimb(b, i) + carry
         IN  BAddC(a, b, i + 1, t \div Base, Append(acc, t % Base))

BAdd(a, b) == BAddC(a, b, 1, 0, <<>>)

RECURSIVE BSubC(_, _, _, _, _)
BSubC(a, b, i, borrow, acc) ==
    IF i > Len(a) THEN acc
    ELSE LET t == a[i] - BLimb(b, i) - borrow
         IN  IF t < 0 THEN BSubC(a, b, i + 1, 1, Append(acc, t + Base))
             ELSE BSubC(a, b, i + 1, 0, Append(acc, t))

\* a - b for a >= b
BSub(a, b) == BNorm(BSubC(a, b, 1, 0, <<>>))

RECURSIVE BCmpAt(_, _, _)
BCmpAt(a, b, i) ==
    IF i = 0 THEN 0
    ELSE IF a[i] < b[i] THEN -1
    ELSE IF a[i] > b[i] THEN 1
    ELSE BCmpAt(a, b, i - 1)

\* -1, 0, 1 as a < b, a = b, a > b
BCmp(a, b) ==
    IF Len(a) < Len(b) THEN -1
    ELSE IF Len(a) > Len(b) THEN 1
    ELSE BCmpAt(a, b, Len(a))

BLess(a, b) == BCmp(a, b) < 0
BLeq(a, b) == BCmp(a, b) <= 0

RECURSIVE BColSum(_, _, _, _, _)
BColSum(a, b, k, i, hi) ==
    IF i > hi THEN 0 ELSE a[i] * b[k + 1 - i] + BColSum(a, b, k, i + 1, hi)

RECURSIVE BCarry(_, _, _, _)
BCarry(cols, i, carry, acc) ==
    IF i > Len(cols)
    THEN (IF carry = 0 THEN acc ELSE BCarry(cols, i, carry \div Base, Append(acc, carry % Base)))
    ELSE LET t == cols[i] + carry
         IN  BCarry(cols, i + 1, t \div Base, Append(acc, t % Base))

\* a * b (operands of at most 8 limbs: a column sum stays below 2^31)
BMul(a, b) ==
    IF a = <<>> \/ b = <<>> THEN <<>>
    ELSE LET la == Len(a)
             lb == Len(b)
             cols == [k \in 1..(la + lb - 1) |->
                        BColSum(a, b, k,
                                IF k + 1 - lb > 1 THEN k + 1 - lb ELSE 1,
                                IF k < la THEN k ELSE la)]
         IN  BNorm(BCarry(cols, 1, 0, <<>>))

\* a * 2^k (\o <<>> turns the function into the tuple of its values)
BShl(a, k) ==
    IF a = <<>> THEN a
    ELSE LET q == k \div LimbBits
             r == k % LimbBits
             up == 2^r
             down == 2^(LimbBits - r)
         IN  BNorm([i \in 1..(Len(a) + q + 1) |->
                      IF i <= q THEN 0
                      ELSE ((BLimb(a, i - q) * up) % Base) + (BLimb(a, i - q - 1) \div down)]
                   \o <<>>)

\* a \div 2^k
BShr(a, k) ==
    LET q == k \div LimbBits
        r == k % LimbBits
        down == 2^r
        up == 2^(LimbBits - r)
    IN  IF Len(a) <= q THEN <<>>
        ELSE BNorm([i \in 1..(Len(a) - q) |->
                      (a[i + q] \div down) + ((BLimb(a, i + q + 1) * up) % Base)]
                   \o <<>>)

\* a % 2^k
BLow(a, k) ==
    LET q == k \div LimbBits
        r == k % LimbBits
    IN  BNorm([i \in 1..(IF r = 0 THEN q ELSE q + 1) |->
                 IF i <= q THEN BLimb(a, i) ELSE BLimb(a, i) % (2^r)]
              \o <<>>)

BIsOdd(a) == a # <<>> /\ a[1] % 2 = 1

RECURSIVE NatBitLen(_)
NatBitLen(n) == IF n = 0 THEN 0 ELSE 1 + NatBitLen(n \div 2)

BitLen(a) == IF a = <<>> THEN 0 ELSE LimbBits * (Len(a) - 1) + NatBitLen(a[Len(a)])

BPow2(k) == BShl(<<1>>, k)

RECURSIVE BDivFix(_, _, _)
\* one quotient limb: q is lowered until q * d <= r
BDivFix(r, d, q) ==
    IF q = 0 THEN [quo |-> 0, rem |-> r]
    ELSE LET p == BMul(d, <<q>>)
         IN  IF BLess(r, p) THEN BDivFix(r, d, q - 1)
             ELSE [quo |-> q, rem |-> BSub(r, p)]

\* one quotient limb of r < d * Base, d with its high bit set: the estimate
\* from the two high limbs of r is at most two too large
BDivDigit(r, d) ==
    LET est == (BLimb(r, Len(d) + 1) * Base + BLimb(r, Len(d))) \div d[Len(d)]
    IN  BDivFix(r, d, IF est < Base THEN est ELSE Base - 1)

\* the quotient limb found goes below the limbs found before it
BDivPush(acc, one) == [quo |-> <<one.quo>> \o acc.quo, rem |-> one.rem]

RECURSIVE BDivLimbs(_, _, _, _)
\* long division, from the high limb of n down; acc is [quo, rem] so far
BDivLimbs(n, d, i, acc) ==
    IF i = 0 \/ Len(acc.rem) < 0 THEN acc
    ELSE BDivLimbs(n, d, i - 1,
                   BDivPush(acc, BDivDigit(BNorm(<<n[i]>> \o acc.rem), d)))

\* the result of the division shifted by s bits
BDivUnshift(r, s) == [quo |-> BNorm(r.quo), rem |-> BShr(r.rem, s)]

\* n and d shifted by s bits: the high bit of the high limb of d is set
BDivShifted(n, d, s) ==
    BDivUnshift(BDivLimbs(n, d, Len(n), [quo |-> <<>>, rem |-> <<>>]), s)

\* [quo, rem] of n divided by d # 0
BDivMod(n, d) ==
    IF BLess(n, d) THEN [quo |-> <<>>, rem |-> n]
    ELSE LET s == LimbBits - NatBitLen(d[Len(d)])
         IN  BDivShifted(BShl(n, s) \o <<>>, BShl(d, s) \o <<>>, s)

RECURSIVE BDivSmallAt(_, _, _, _)
BDivSmallAt(a, d, i, rem) ==
    IF i = 0 THEN <<>>
    ELSE LET t == rem * Base + a[i]
         IN  Append(BDivSmallAt(a, d, i - 1, t % d), t \div d)

BDivSmall(a, d) == BNorm(BDivSmallAt(a, d, Len(a), 0))

RECURSIVE IsqrtBits(_, _, _, _)
\* `count` steps of the digit-by-digit integer square root; k is the exponent
\* of the current power of four
IsqrtBits(n, res, k, count) ==
    IF k < 0 \/ count = 0 THEN [n |-> n, res |-> res, k |-> k]
    ELSE LET t == BAdd(res, BPow2(k))
         IN  IF BLeq(t, n)
             THEN IsqrtBits(BSub(n, t), BAdd(BShr(res, 1), BPow2(k)), k - 2, count - 1)
             ELSE IsqrtBits(n, BShr(res, 1), k - 2, count - 1)

RECURSIVE IsqrtRun(_)
IsqrtRun(st) ==
    IF st.k < 0 THEN st ELSE IsqrtRun(IsqrtBits(st.n, st.res, st.k, LimbBits))

\* [n, res, k]: res is floor(sqrt(n)), and the n left over is n - res^2
BIsqrt(n) ==
    LET top == BitLen(n) - 1
    IN  IsqrtRun([n |-> n, res |-> <<>>, k |-> top - (top % 2)])

(***************************************************************************)
(* f64: IEEE-754 binary64 values and operations                            *)
(***************************************************************************)
MantBits == 53

NaN == [cls |-> "nan", neg |-> FALSE, man |-> <<>>, exp |-> 0]
Infinity(neg) == [cls |-> "inf", neg |-> neg, man |-> <<>>, exp |-> 0]
Zero(neg) == [cls |-> "num", neg |-> neg, man |-> <<>>, exp |-> 0]

is_nan(a) == a.cls = "nan"
IsZero(a) == a.cls = "num" /\ a.man = <<>>

\* the f64 nearest to (-1)^neg * (m * 2^e + a little, when sticky), m # 0,
\* ties to even; with sticky the caller gives m at least MantBits + 2 bits
\* q, the bits kept, and c, the bits dropped compared with one half: -1, 0, 1
RoundUp(q, c, sticky) ==
    IF c > 0 \/ (c = 0 /\ (sticky \/ BIsOdd(q))) THEN BAdd(q, <<1>>) ELSE q

\* rounding up may carry into a 54th bit
Renormalize(neg, q, e) ==
    IF BitLen(q) > MantBits
    THEN [cls |-> "num", neg |-> neg, man |-> BShr(q, 1), exp |-> e + 1]
    ELSE [cls |-> "num", neg |-> neg, man |-> q, exp |-> e]

RoundPack(neg, m, e, sticky) ==
    LET len == BitLen(m)
        sh == len - MantBits
    IN  IF len <= MantBits
        THEN [cls |-> "num", neg |-> neg,
              man |-> BShl(m, MantBits - len), exp |-> e - (MantBits - len)]
        ELSE Renormalize(neg,
                         RoundUp(BShr(m, sh), BCmp(BLow(m, sh), BPow2(sh - 1)), sticky),
                         e + sh)

\* an integer literal or an integer converted with `as f64`
FromInt(n) ==
    IF n = 0 THEN Zero(FALSE)
    ELSE Call("RoundPack", <<n < 0, BFromNat(IF n < 0 THEN -n ELSE n), 0, FALSE>>)

\* `x as f64` for a u64 x
u64_as_f64(x) ==
    IF x = <<>> THEN Zero(FALSE) ELSE Call("RoundPack", <<FALSE, x, 0, FALSE>>)

f64_neg(a) == IF a.cls = "nan" THEN a ELSE [a EXCEPT !.neg = ~a.neg]

\* magnitudes of two nonzero finite values: -1, 0, 1
MagCmp(a, b) ==
    IF a.exp < b.exp THEN -1
    ELSE IF a.exp > b.exp THEN 1
    ELSE BCmp(a.man, b.man)

\* a + b for nonzero finite a, b with a.exp >= b.exp
AddAligned(a, b) ==
    LET d == a.exp - b.exp
        far == d > MantBits + 3
        big == IF far THEN BShl(a.man, 3) ELSE BShl(a.man, d)
        e == IF far THEN a.exp - 3 ELSE b.exp
    IN  IF a.neg = b.neg
        THEN Call("RoundPack", <<a.neg, IF far THEN big ELSE BAdd(big, b.man), e, far>>)
        ELSE IF far THEN Call("RoundPack", <<a.neg, BSub(big, <<1>>), e, TRUE>>)
        ELSE LET c == BCmp(big, b.man)
             IN  IF c = 0 THEN Zero(FALSE)
                 ELSE IF c > 0
                 THEN Call("RoundPack", <<a.neg, BSub(big, b.man), e, FALSE>>)
                 ELSE Call("RoundPack", <<b.neg, BSub(b.man, big), e, FALSE>>)

ieee_add(a, b) ==
    IF a.cls = "nan" \/ b.cls = "nan" THEN NaN
    ELSE IF a.cls = "inf"
         THEN (IF b.cls = "inf" /\ a.neg # b.neg THEN NaN ELSE a)
    ELSE IF b.cls = "inf" THEN b
    ELSE IF a.man = <<>>
         THEN (IF b.man = <<>> THEN Zero(a.neg /\ b.neg) ELSE b)
    ELSE IF b.man = <<>> THEN a
    ELSE AddAligned(IF a.exp >= b.exp THEN a ELSE b, IF a.exp >= b.exp THEN b ELSE a)

f64_add(a, b) == Call("ieee_add", <<a, b>>)

f64_sub(a, b) == f64_add(a, f64_neg(b))

ieee_mul(a, b) ==
    IF a.cls = "nan" \/ b.cls = "nan" THEN NaN
    ELSE IF a.cls = "inf" \/ b.cls = "inf"
         THEN (IF IsZero(a) \/ IsZero(b) THEN NaN ELSE Infinity(a.neg # b.neg))
    ELSE IF a.man = <<>> \/ b.man = <<>> THEN Zero(a.neg # b.neg)
    ELSE Call("RoundPack", <<a.neg # b.neg, BMul(a.man, b.man), a.exp + b.exp, FALSE>>)

f64_mul(a, b) == Call("ieee_mul", <<a, b>>)

ieee_div(a, b) ==
    IF a.cls = "nan" \/ b.cls = "nan" THEN NaN
    ELSE IF a.cls = "inf"
         THEN (IF b.cls = "inf" THEN NaN ELSE Infinity(a.neg # b.neg))
    ELSE IF b.cls = "inf" THEN Zero(a.neg # b.neg)
    ELSE IF b.man = <<>>
         THEN (IF a.man = <<>> THEN NaN ELSE Infinity(a.neg # b.neg))
    ELSE IF a.man = <<>> THEN Zero(a.neg # b.neg)
    ELSE LET qr == Call("BDivMod", <<BShl(a.man, MantBits + 3), b.man>>)
         IN  Call("RoundPack", <<a.neg # b.neg, qr.quo,
                                 a.exp - (MantBits + 3) - b.exp, qr.rem # <<>>>>)

f64_div(a, b) == Call("ieee_div", <<a, b>>)

\* the comparison of two f64: -1, 0, 1, or 2 when one of them is NaN
Compare(a, b) ==
    IF a.cls = "nan" \/ b.cls = "nan" THEN 2
    ELSE IF IsZero(a) /\ IsZero(b) THEN 0
    ELSE IF IsZero(a) THEN (IF b.neg THEN 1 ELSE -1)
    ELSE IF IsZero(b) THEN (IF a.neg THEN -1 ELSE 1)
    ELSE IF a.neg # b.neg THEN (IF a.neg THEN -1 ELSE 1)
    ELSE LET mag == IF a.cls = "inf" THEN (IF b.cls = "inf" THEN 0 ELSE 1)
                    ELSE IF b.cls = "inf" THEN -1
                    ELSE MagCmp(a, b)
         IN  IF a.neg THEN -mag ELSE mag

f64_lt(a, b) == Compare(a, b) = -1
f64_le(a, b) == Compare(a, b) \in {-1, 0}
f64_ne(a, b) == Compare(a, b) # 0

\* f64::max and f64::min: a NaN argument is ignored in favour of the other
f64_max(a, b) ==
    IF a.cls = "nan" THEN b
    ELSE IF b.cls = "nan" THEN a
    ELSE IF f64_lt(a, b) THEN b ELSE a

f64_min(a, b) ==
    IF a.cls = "nan" THEN b
    ELSE IF b.cls = "nan" THEN a
    ELSE IF f64_lt(b, a) THEN b ELSE a

f64_abs(a) == IF a.cls = "nan" THEN a ELSE [a EXCEPT !.neg = FALSE]

\* the root found and whether the radicand was its square
SqrtRound(r, e) == Call("RoundPack", <<FALSE, r.res, e, r.n # <<>>>>)

ieee_sqrt(a) ==
    IF a.cls = "nan" THEN NaN
    ELSE IF IsZero(a) THEN a
    ELSE IF a.neg THEN NaN
    ELSE IF a.cls = "inf" THEN a
    ELSE LET sh == IF (a.exp - (MantBits + 3)) % 2 = 0 THEN MantBits + 3 ELSE MantBits + 4
         IN  SqrtRound(BIsqrt(BShl(a.man, sh)), (a.exp - sh) \div 2)

libm_sqrt(a) == Call("ieee_sqrt", <<a>>)

\* libm::pow(x, 2.0)
libm_pow2(a) == f64_mul(a, a)

\* fixed point for the logarithm: a BigNat v stands for v / 2^LogFracBits
LogFracBits == 7 * LimbBits
LogOne == BPow2(LogFracBits)

RECURSIVE AtanhTerms(_, _, _, _)
\* sum over k >= n of w^k / (2k + 1), term = w^n
AtanhTerms(term, w, n, acc) ==
    IF term = <<>> \/ Len(acc) < 0 THEN acc
    ELSE AtanhTerms(BShr(BMul(term, w), LogFracBits), w, n + 1,
                    BAdd(acc, BDivSmall(term, 2 * n + 1)))

\* atanh(z) / z = 1 + w/3 + w^2/5 + ... for w = z^2
AtanhSeries(w) == AtanhTerms(LogOne, w, 0, <<>>)

\* ln 2 = 2 atanh(1/3)
Ln2Fixed == BDivSmall(BShl(AtanhSeries(BDivSmall(LogOne, 9)), 1), 3)

\* the 53-bit significand of sqrt(2), rounded down
Sqrt2Man == BIsqrt(BPow2(2 * MantBits - 1)).res

\* atanh(z) / z for the fixed-point z
AtanhOver(z) == AtanhSeries(BShr(BMul(z, z), LogFracBits))

\* e ln 2 + 2 atanh(z) for e # 0: el = |e| ln 2, lf = |2 atanh(z)|
LogSum(neg, below, el, lf) ==
    Call("RoundPack",
         <<neg, IF neg = below THEN BAdd(el, lf) ELSE BSub(el, lf), -LogFracBits, TRUE>>)

\* prod / den = |atanh(z)|, for prod = num * (atanh(z) / z)
LogRound(below, num, den, e, prod) ==
    IF Len(prod) < 0 THEN NaN  \* (never: the test evaluates prod first)
    ELSE IF e = 0
    THEN LET s == MantBits + 7 - BitLen(num)
         IN  Call("RoundPack", <<below, Call("BDivMod", <<BShl(prod, s + 1), den>>).quo,
                                 -(LogFracBits + s), TRUE>>)
    ELSE LogSum(e < 0, below,
                BMul(BFromNat(IF e < 0 THEN -e ELSE e), Ln2Fixed),
                Call("BDivMod", <<BShl(prod, 1), den>>).quo)

\* z = num / den = |f - 1| / (f + 1); below: f < 1
LogParts(below, num, den, e) ==
    IF num = <<>> /\ e = 0 THEN Zero(FALSE)
    ELSE LogRound(below, num, den, e,
                  BMul(num, AtanhOver(Call("BDivMod", <<BShl(num, LogFracBits), den>>).quo)))

\* f = man / one
LogScaled(man, one, e) ==
    LogParts(BLess(man, one),
             IF BLess(man, one) THEN BSub(one, man) ELSE BSub(man, one),
             BAdd(man, one), e)

\* x = f * 2^e with sqrt(1/2) <= f < sqrt(2); big: the significand of x is
\* above that of sqrt(2)
LogReduced(a, big) ==
    LogScaled(a.man,
              IF big THEN BPow2(MantBits) ELSE BPow2(MantBits - 1),
              IF big THEN a.exp + MantBits ELSE a.exp + MantBits - 1)

\* libm::log: ln x = e ln 2 + 2 atanh(z), z = (f - 1) / (f + 1)
rounded_log(a) ==
    IF a.cls = "nan" THEN NaN
    ELSE IF IsZero(a) THEN Infinity(TRUE)
    ELSE IF a.neg THEN NaN
    ELSE IF a.cls = "inf" THEN a
    ELSE LogReduced(a, BLess(Sqrt2Man, a.man))

libm_log(a) == Call("rounded_log", <<a>>)

(***************************************************************************)
(* Literals                                                                *)
(***************************************************************************)
RECURSIVE BFromDigits(_, _)
\* the BigNat written in decimal digits, most significant first
BFromDigits(digits, acc) ==
    IF digits = <<>> THEN acc
    ELSE BFromDigits(Tail(digits), BAdd(BMul(acc, <<10>>), BFromNat(Head(digits))))

One == FromInt(1)
Two == FromInt(2)
Three == FromInt(3)
Half == f64_div(One, Two)
Lit0_0331 == f64_div(FromInt(331), FromInt(10000))

MAX_ALPHA == FromInt(4)
MIN_ALPHA == FromInt(1)
A == BFromDigits(<<6,3,6,4,1,3,6,2,2,3,8,4,6,7,9,3,0,0,5>>, <<>>)
C == BFromDigits(<<1,4,4,2,6,9,5,0,4,0,8,8,8,9,6,3,4,0,7>>, <<>>)

U64Bits == 64
U64_MAX == BSub(BPow2(U64Bits), <<1>>)

wrapping_mul(x, y) == BLow(BMul(x, y), U64Bits)
wrapping_add(x, y) == BLow(BAdd(x, y), U64Bits)
u64_rem(x, m) == Call("BDivMod", <<x, m>>).rem

(***************************************************************************)
(* LcgRng                                                                  *)
(***************************************************************************)
LcgRng_new(seed) == [state |-> seed, a |-> A, c |-> C, m |-> U64_MAX]

\* (variant) the state is one static cell shared by every instance
next_u64_shared(self) ==
    [self EXCEPT !.state =
        u64_rem(wrapping_add(wrapping_mul(self.a, rng1.state), self.c), self.m)]

\* (variant) product and sum are taken in a wider integer type
next_u64_wide(self) ==
    [self EXCEPT !.state = u64_rem(BAdd(BMul(self.a, self.state), self.c), self.m)]

\* (variant) the new state is never stored
next_u64_stuck(self) == self

\* the generator after the draw; the value returned is its state
next_u64(self) ==
    [self EXCEPT !.state =
        u64_rem(wrapping_add(wrapping_mul(self.a, self.state), self.c), self.m)]

\* [rng, val]: the generator after the draw and the value returned
gen_range(self, start, end) ==
    LET rng == Call("next_u64", <<self>>)
        random_u64 == rng.state
        random_f64 == f64_div(u64_as_f64(random_u64), u64_as_f64(U64_MAX))
    IN  [rng |-> rng,
         val |-> f64_add(start, f64_mul(random_f64, f64_sub(end, start)))]

\* one pass of the loop of marsaglia_polar_sample: [rng, accept, z0]
PolarAttempt(self) ==
    LET g1 == Call("gen_range", <<self, FromInt(-1), One>>)
        g2 == Call("gen_range", <<g1.rng, FromInt(-1), One>>)
        u == g1.val
        v == g2.val
        s == f64_add(f64_mul(u, u), f64_mul(v, v))
        ok == f64_lt(s, One) /\ f64_ne(s, Zero(FALSE))
    IN  [rng |-> g2.rng, accept |-> ok,
         z0 |-> IF ok
                THEN f64_mul(u, libm_sqrt(f64_div(f64_mul(FromInt(-2), libm_log(s)), s)))
                ELSE NaN]

RECURSIVE marsaglia_polar_sample(_)
\* [rng, accept, z0] of the accepting pass
marsaglia_polar_sample(self) ==
    LET t == Call("PolarAttempt", <<self>>)
    IN  IF t.accept THEN t ELSE marsaglia_polar_sample(t.rng)

(***************************************************************************)
(* Slices of f64                                                           *)
(***************************************************************************)
usize_as_f64(n) == FromInt(n)

\* Iterator::collect / Vec::push in a loop: the items as a vector
collect(items) == items \o <<>>

RECURSIVE SumFrom(_, _, _)
\* Iterator::sum::<f64>() folds the items with + from the left
SumFrom(xs, i, acc) ==
    IF i > Len(xs) THEN acc ELSE SumFrom(xs, i + 1, f64_add(acc, xs[i]))

\* (the neutral element of the fold is -0.0)
iter_sum(xs) == SumFrom(xs, 1, Zero(TRUE))

(***************************************************************************)
(* estimate_gamma_parameters                                               *)
(***************************************************************************)
estimate_gamma_parameters(x) ==
    LET n == usize_as_f64(Len(x))
        mean_x == f64_div(Call("iter_sum", <<x>>), n)
        sum_sq_diff == Call("iter_sum", <<collect([i \in 1..Len(x) |->
                                            libm_pow2(f64_sub(x[i], mean_x))])>>)
        var_x == f64_div(sum_sq_diff, f64_sub(n, One))
        alpha == f64_div(libm_pow2(mean_x), var_x)
        beta == f64_div(var_x, mean_x)
    IN  [alpha |-> alpha, beta |-> beta]

(***************************************************************************)
(* sort_values                                                             *)
(***************************************************************************)
Panic == [cls |-> "panic", neg |-> FALSE, man |-> <<>>, exp |-> 0]

HasNaN(xs) == \E i \in 1..Len(xs) : is_nan(xs[i])

RECURSIVE InsertSorted(_, _, _)
\* v goes behind every element of the sorted xs[1..i] that is not greater
InsertSorted(xs, v, i) ==
    IF i = 0 \/ Compare(xs[i], v) <= 0
    THEN SubSeq(xs, 1, i) \o <<v>> \o SubSeq(xs, i + 1, Len(xs))
    ELSE InsertSorted(xs, v, i - 1)

RECURSIVE StableSort(_, _, _)
StableSort(xs, i, acc) ==
    IF i > Len(xs) THEN acc
    ELSE StableSort(xs, i + 1, InsertSorted(acc, xs[i], Len(acc)))

\* [panicked, values]: sort_by(|a, b| a.partial_cmp(b).unwrap()) compares every
\* element of a slice of two or more, and unwrap() panics on a NaN operand
sort_values(values) ==
    IF Len(values) >= 2 /\ HasNaN(values)
    THEN [panicked |-> TRUE, values |-> <<>>]
    ELSE [panicked |-> FALSE, values |-> StableSort(values, 1, <<>>)]

(***************************************************************************)
(* generate_random_gamma_values                                            *)
(***************************************************************************)
\* one pass of the loop of one variate after marsaglia_polar_sample returned
\* x: [rng, accept, val]
GammaBody(rng, x, alpha, beta) ==
    LET d == f64_sub(alpha, f64_div(One, Three))
        c == f64_div(f64_div(One, Three), libm_sqrt(d))
        v1 == f64_add(One, f64_mul(c, x))
        v == f64_mul(f64_mul(v1, v1), v1)
        g == Call("gen_range", <<rng, Zero(FALSE), One>>)
        u == g.val
        x_squared == f64_mul(x, x)
    IN  IF f64_le(v1, Zero(FALSE))
        THEN [rng |-> rng, accept |-> FALSE, val |-> NaN]
        ELSE IF f64_lt(u, f64_sub(One, f64_mul(f64_mul(Lit0_0331, x_squared), x_squared)))
                \/ f64_lt(libm_log(u),
                          f64_add(f64_mul(Half, x_squared),
                                  f64_mul(d, f64_add(f64_sub(One, v), libm_log(v)))))
        THEN [rng |-> g.rng, accept |-> TRUE, val |-> f64_mul(f64_mul(d, v), beta)]
        ELSE [rng |-> g.rng, accept |-> FALSE, val |-> NaN]

\* one pass of the loop of one variate: [rng, accept, val]
GammaAttempt(rng, alpha, beta) ==
    LET p == Call("marsaglia_polar_sample", <<rng>>)
    IN  Call("GammaBody", <<p.rng, p.z0, alpha, beta>>)

RECURSIVE GammaVariate(_, _, _)
\* [rng, accept, val] of the accepting pass
GammaVariate(rng, alpha, beta) ==
    LET t == Call("GammaAttempt", <<rng, alpha, beta>>)
    IN  IF t.accept THEN t ELSE GammaVariate(t.rng, alpha, beta)

RECURSIVE GammaValues(_, _, _, _, _)
GammaValues(rng, alpha, beta, left, acc) ==
    IF left = 0 \/ Len(rng.state) < 0 THEN acc
    ELSE LET t == Call("GammaVariate", <<rng, alpha, beta>>)
         IN  GammaValues(t.rng, alpha, beta, left - 1, Append(acc, t.val))

generate_random_gamma_values(alpha, beta, num_samples, seed) ==
    GammaValues(LcgRng_new(seed), alpha, beta, num_samples, <<>>)

(***************************************************************************)
(* estimate_offset                                                         *)
(***************************************************************************)
\* (variant) the plotting position is not divided by n
p_value_rank(rank, n) == f64_sub(rank, Half)

\* let p_value = (rank - 0.5) / n as f64
p_value(rank, n) == f64_div(f64_sub(rank, Half), usize_as_f64(n))

estimate_offset(x_sort, y) ==
    LET n == Len(x_sort)
        y_regression == collect([i \in 1..n |-> y[i]])
        x_regression == collect([i \in 1..n |->
                            f64_sub(x_sort[i],
                                    Call("p_value", <<usize_as_f64(i), n>>))])
        x_mean == f64_div(Call("iter_sum", <<x_regression>>), usize_as_f64(n))
        y_mean == f64_div(Call("iter_sum", <<y_regression>>), usize_as_f64(n))
        numerator == Call("iter_sum", <<collect([i \in 1..n |->
                        f64_mul(f64_sub(x_regression[i], x_mean),
                                f64_sub(y_regression[i], y_mean))])>>)
        denominator == Call("iter_sum", <<collect([i \in 1..n |->
                          libm_pow2(f64_sub(x_regression[i], x_mean))])>>)
        beta == f64_div(numerator, denominator)
        gamma == f64_sub(y_mean, f64_mul(beta, x_mean))
    IN  IF Len(y) < n THEN Panic  \* y[i] out of bounds
        ELSE f64_div(f64_neg(gamma), beta)

(***************************************************************************)
(* estimate                                                                *)
(***************************************************************************)
None == [some |-> FALSE, val |-> <<>>]
Some(v) == [some |-> TRUE, val |-> v]
unwrap_or(opt, default) == IF opt.some THEN opt.val ELSE default

\* (variant) a clamp written with comparisons, which a NaN passes through
ClampAlphaCmp(alpha) ==
    IF f64_lt(alpha, MIN_ALPHA) THEN MIN_ALPHA
    ELSE IF f64_lt(MAX_ALPHA, alpha) THEN MAX_ALPHA ELSE alpha

\* alpha.max(MIN_ALPHA).min(MAX_ALPHA)
ClampAlpha(alpha) == f64_min(f64_max(alpha, MIN_ALPHA), MAX_ALPHA)

\* (variant) the fallback seed is taken from a process-wide call counter
lcg_seed_counter == BFromNat(Len(calls))

lcg_seed == Call("next_u64", <<LcgRng_new(<<>>)>>).state

\* [alpha_raw, alpha, ret]: the alpha estimate_gamma_parameters returned, the
\* alpha handed to generate_random_gamma_values and the value returned (Panic
\* when a sort_values panics)
estimate(time_values, seed) ==
    LET n == Len(time_values)
        params == Call("estimate_gamma_parameters", <<time_values>>)
        alpha == Call("ClampAlpha", <<params.alpha>>)
        random_values == Call("generate_random_gamma_values",
                              <<alpha, params.beta, n, unwrap_or(seed, lcg_seed)>>)
        sorted == Call("sort_values", <<time_values>>)
        random_sorted == Call("sort_values", <<random_values>>)
    IN  [alpha_raw |-> params.alpha,
         alpha |-> alpha,
         ret |-> IF sorted.panicked \/ random_sorted.panicked THEN Panic
                 ELSE Call("estimate_offset", <<sorted.values, random_sorted.values>>)]

(***************************************************************************)
(* The table of the modelled functions.  The arguments of a call are       *)
(* evaluated before the function is entered, as the program does.          *)
(***************************************************************************)
Call(op, args) ==
    CASE op = "RoundPack" /\ Len(args) = 4 -> RoundPack(args[1], args[2], args[3], args[4])
      [] op = "BDivMod" /\ Len(args) = 2 -> BDivMod(args[1], args[2])
      [] op = "ieee_add" /\ Len(args) = 2 -> ieee_add(args[1], args[2])
      [] op = "ieee_mul" /\ Len(args) = 2 -> ieee_mul(args[1], args[2])
      [] op = "ieee_div" /\ Len(args) = 2 -> ieee_div(args[1], args[2])
      [] op = "ieee_sqrt" /\ Len(args) = 1 -> ieee_sqrt(args[1])
      [] op = "rounded_log" /\ Len(args) = 1 -> rounded_log(args[1])
      [] op = "next_u64" /\ Len(args) = 1 -> next_u64(args[1])
      [] op = "gen_range" /\ Len(args) = 3 -> gen_range(args[1], args[2], args[3])
      [] op = "PolarAttempt" /\ Len(args) = 1 -> PolarAttempt(args[1])
      [] op = "marsaglia_polar_sample" /\ Len(args) = 1 -> marsaglia_polar_sample(args[1])
      [] op = "iter_sum" /\ Len(args) = 1 -> iter_sum(args[1])
      [] op = "p_value" /\ Len(args) = 2 -> p_value(args[1], args[2])
      [] op = "GammaBody" /\ Len(args) = 4 -> GammaBody(args[1], args[2], args[3], args[4])
      [] op = "GammaAttempt" /\ Len(args) = 3 -> GammaAttempt(args[1], args[2], args[3])
      [] op = "GammaVariate" /\ Len(args) = 3 -> GammaVariate(args[1], args[2], args[3])
      [] op = "estimate_gamma_parameters" /\ Len(args) = 1 -> estimate_gamma_parameters(args[1])
      [] op = "ClampAlpha" /\ Len(args) = 1 -> ClampAlpha(args[1])
      [] op = "generate_random_gamma_values" /\ Len(args) = 4 ->
            generate_random_gamma_values(args[1], args[2], args[3], args[4])
      [] op = "sort_values" /\ Len(args) = 1 -> sort_values(args[1])
      [] op = "estimate_offset" /\ Len(args) = 2 -> estimate_offset(args[1], args[2])
      [] op = "estimate" /\ Len(args) = 2 -> estimate(args[1], args[2])

(***************************************************************************)
(* The states in which a part of the model is not in use                   *)
(***************************************************************************)
Idle == <<>>

IdleRng == rng1 = Idle /\ rng2 = Idle /\ script = <<>> /\ out1 = <<>> /\ out2 = <<>>

IdleGen ==
    /\ g_cfg = Idle /\ g_rng = Idle /\ g_pc = "idle"
    /\ g_x = NaN /\ g_vals = <<>> /\ g_rejected = FALSE /\ g_passes = 0 /\ g_offset = NaN

IdleEst == est_in = Idle /\ calls = <<>>

(***************************************************************************)
(* Two generators under one script of draws                                *)
(***************************************************************************)
MaxDraws == 2

\* the seed whose first draw is 2^64 - 2, and the seed whose first draw is 0
\* (the product wraps to 2^64 - 1 = m)
SeedNearMax == BFromDigits(<<1,7,5,8,0,4,7,2,4,5,4,6,1,5,5,2,8,4,3>>, <<>>)
SeedToZero == BFromDigits(<<1,5,6,3,5,8,7,1,3,8,6,1,7,5,8,7,4,9,2,8>>, <<>>)

Seeds == {<<>>, BFromNat(1), BFromNat(3), BFromNat(43), BFromNat(12345),
          SeedNearMax, SeedToZero, U64_MAX}

DrawOps ==
    {[kind |-> "next_u64", start |-> NaN, end |-> NaN],
     [kind |-> "gen_range", start |-> Zero(FALSE), end |-> One],
     [kind |-> "gen_range", start |-> FromInt(-1), end |-> One]}

\* one draw on self: what the entry of out1 / out2 records, and the generator
\* afterwards.  u64 is the value of next_u64, f64 the value of gen_range
Drawn(self, op, g) ==
    [rng |-> g.rng,
     rec |-> [op |-> op, before |-> self.state, after |-> g.rng.state,
              u64 |-> g.rng.state, f64 |-> g.val]]

Draw(self, op) ==
    IF op.kind = "next_u64"
    THEN Drawn(self, op, [rng |-> Call("next_u64", <<self>>), val |-> NaN])
    ELSE Drawn(self, op, Call("gen_range", <<self, op.start, op.end>>))

InitRng ==
    /\ \E seed \in Seeds : rng1 = LcgRng_new(seed) /\ rng2 = LcgRng_new(seed)
    /\ script = <<>> /\ out1 = <<>> /\ out2 = <<>>
    /\ IdleGen /\ IdleEst

\* the first instance draws
Draw1 ==
    /\ Len(out1) < MaxDraws
    /\ \E op \in DrawOps :
          \E d \in {Draw(rng1, op)} :
              /\ rng1' = d.rng
              /\ out1' = Append(out1, d.rec)
              /\ script' = Append(script, op)
    /\ UNCHANGED <<rng2, out2, genVars, estVars>>

\* the second instance repeats the first one's next draw
Draw2 ==
    /\ Len(out2) < Len(script)
    /\ \E d \in {Draw(rng2, script[Len(out2) + 1])} :
           /\ rng2' = d.rng
           /\ out2' = Append(out2, d.rec)
    /\ UNCHANGED <<rng1, out1, script, genVars, estVars>>

NextRng == Draw1 \/ Draw2

SpecRng == InitRng /\ [][NextRng]_vars

C2_InRange ==
    \A i \in 1..Len(out1) :
        out1[i].op.kind = "gen_range" =>
            /\ f64_le(out1[i].op.start, out1[i].f64)
            /\ f64_lt(out1[i].f64, out1[i].op.end)

\* (a * s + c) mod 2^64, then mod 2^64 - 1
WrappedLcg(s) ==
    BDivMod(BDivMod(BAdd(BMul(A, s), C), BPow2(U64Bits)).rem,
            BSub(BPow2(U64Bits), <<1>>)).rem

\* (a * s + c) mod 2^64 - 1 over the unbounded integers
UnboundedLcg(s) == BDivMod(BAdd(BMul(A, s), C), BSub(BPow2(U64Bits), <<1>>)).rem

Overflows(s) == BLeq(BPow2(U64Bits), BAdd(BMul(A, s), C))

\* C7 (as amended): every draw sets the state to ((a * s + c) mod 2^64) mod
\* (2^64 - 1), product and sum wrapping at 64 bits, and returns the new state
C7_Wrapping ==
    \A i \in 1..Len(out1) :
        /\ out1[i].after = WrappedLcg(out1[i].before)
        /\ out1[i].u64 = out1[i].after

C7_Witness ==
    \E i \in 1..Len(out1) :
        /\ out1[i].op.kind = "next_u64"
        /\ Overflows(out1[i].before)
        /\ i > 1

\* C7 (as written): every draw sets the state to (a * s + c) mod (2^64 - 1)
\* with product and sum taken as unbounded integers
C7_Unbounded ==
    \A i \in 1..Len(out1) :
        /\ out1[i].after = UnboundedLcg(out1[i].before)
        /\ out1[i].u64 = out1[i].after

(***************************************************************************)
(* A sample, generated pass by pass or given, sorted and regressed on      *)
(* itself (tests::test_estimate_offset)                                    *)
(***************************************************************************)
MaxVariates == 2
MaxPasses == 12
MaxGiven == 3

\* let alpha1 = 4.0; let beta1 = 100.0; let n = 100; let seed = 500;
TestSample ==
    [kind |-> "gamma", alpha |-> FromInt(4), beta |-> FromInt(100),
     n |-> 100, seed |-> BFromNat(500)]

GenSeeds == Seeds \cup {lcg_seed}
GenAlphas == {MIN_ALPHA, f64_div(FromInt(5), Two), MAX_ALPHA}

GammaConfigs ==
    {TestSample} \cup
    {[kind |-> "gamma", alpha |-> al, beta |-> One, n |-> MaxVariates, seed |-> sd] :
        al \in GenAlphas, sd \in GenSeeds}

GivenVals == {Zero(FALSE), One, Two}
GivenSamples == UNION {[1..n -> GivenVals] : n \in 2..MaxGiven}

GivenConfig(v) ==
    [kind |-> "given", alpha |-> NaN, beta |-> NaN, n |-> Len(v), seed |-> <<>>]

InitGen ==
    /\ \/ \E cfg \in GammaConfigs :
             /\ g_cfg = cfg /\ g_rng = LcgRng_new(cfg.seed)
             /\ g_vals = <<>> /\ g_pc = "polar"
       \/ \E v \in GivenSamples :
             /\ g_cfg = GivenConfig(v) /\ g_rng = Idle
             /\ g_vals = v /\ g_pc = "sort"
    /\ g_x = NaN /\ g_rejected = FALSE /\ g_passes = 0 /\ g_offset = NaN
    /\ IdleRng /\ IdleEst

\* one pass of the loop of marsaglia_polar_sample
PolarPass ==
    /\ g_pc = "polar" /\ g_passes < MaxPasses
    /\ \E t \in {Call("PolarAttempt", <<g_rng>>)} :
           /\ g_rng' = t.rng
           /\ g_x' = t.z0
           /\ g_pc' = IF t.accept THEN "body" ELSE "polar"
           /\ g_rejected' = (g_rejected \/ ~t.accept)
           /\ g_passes' = g_passes + 1
    /\ UNCHANGED <<g_cfg, g_vals, g_offset, rngVars, estVars>>

\* the rest of one pass of the loop of one variate
BodyPass ==
    /\ g_pc = "body"
    /\ \E t \in {Call("GammaBody", <<g_rng, g_x, g_cfg.alpha, g_cfg.beta>>)} :
           /\ g_rng' = t.rng
           /\ g_vals' = IF t.accept THEN Append(g_vals, t.val) ELSE g_vals
           /\ g_pc' = IF t.accept /\ Len(g_vals) + 1 = g_cfg.n THEN "sort" ELSE "polar"
           /\ g_rejected' = (g_rejected \/ ~t.accept)
           /\ g_passes' = IF t.accept THEN 0 ELSE g_passes
    /\ UNCHANGED <<g_cfg, g_x, g_offset, rngVars, estVars>>

\* values_sorted.sort_unstable_by(..); estimate_offset(&values_sorted, &values_sorted)
Regress ==
    /\ g_pc = "sort"
    /\ \E s \in {Call("sort_values", <<g_vals>>)} :
           /\ g_vals' = IF s.panicked THEN g_vals ELSE s.values
           /\ g_offset' = IF s.panicked THEN Panic
                          ELSE Call("estimate_offset", <<s.values, s.values>>)
    /\ g_pc' = "done"
    /\ UNCHANGED <<g_cfg, g_rng, g_x, g_rejected, g_passes, rngVars, estVars>>

NextGen == PolarPass \/ BodyPass \/ Regress

SpecGen == InitGen /\ [][NextGen]_vars

Tenth == f64_div(One, FromInt(10))

IsConstant(v) == \A i \in 1..Len(v) : v[i] = v[1]

\* C5: estimate_offset(x, x) on a constant x of two or more elements reports
\* DegenerateRegression
C5_ReportsDegenerate ==
    (g_pc = "done" /\ Len(g_vals) >= 2 /\ IsConstant(g_vals))
        => g_offset.cls = "DegenerateRegression"

\* C6 (as amended): for the sorted sample of 100 Gamma(4, 100) variates of
\* seed 500, estimate_offset(v, v) is less than 0.1 in absolute value
C6_TestSample ==
    (g_pc = "done" /\ g_cfg = TestSample)
        => f64_lt(f64_abs(g_offset), Tenth)

C6_Witness == g_pc = "done" /\ g_cfg = TestSample /\ Len(g_vals) = 100

\* C6 (as written): for every ascending v of two or more elements that are
\* not all equal, estimate_offset(v, v) is less than 0.1 in absolute value
C6_AnySample ==
    (g_pc = "done" /\ Len(g_vals) >= 2 /\ ~IsConstant(g_vals))
        => f64_lt(f64_abs(g_offset), Tenth)

MaxLen == 2
MaxCalls == 2

EstVals == {FromInt(-1), Zero(FALSE), One, Two, NaN, Infinity(FALSE)}
EstSamples == UNION {[1..n -> EstVals] : n \in 0..MaxLen}
EstSeeds == {None, Some(BFromNat(43))}
EstInputs == {[samples |-> v, seed |-> sd] : v \in EstSamples, sd \in EstSeeds}

\* what a call that returned leaves in calls
CallRecord(in) ==
    LET r == Call("estimate", <<in.samples, in.seed>>)
    IN  [samples |-> in.samples, seed |-> in.seed,
         alpha_raw |-> r.alpha_raw, alpha |-> r.alpha, ret |-> r.ret]

InitEstimate ==
    /\ est_in \in EstInputs
    /\ calls = <<>>
    /\ IdleRng /\ IdleGen

\* one call of estimate
Estimate ==
    /\ calls = <<>>
    /\ calls' = <<CallRecord(est_in)>>
    /\ UNCHANGED <<est_in, rngVars, genVars>>

SpecEstimate == InitEstimate /\ [][Estimate]_vars

\* the calls of a caller that repeats samples and seeds
CallSamples == {<<One, Two>>, <<Zero(FALSE), Two>>}
CallSeeds == {None, Some(C), Some(BFromNat(43))}
CallInputs ==
    {[samples |-> v, seed |-> sd] : v \in CallSamples, sd \in CallSeeds}

InitCalls ==
    /\ est_in \in CallInputs
    /\ calls = <<>>
    /\ IdleRng /\ IdleGen

\* a call of estimate, and the caller's choice of the next one
EstimateNext ==
    /\ Len(calls) < MaxCalls
    /\ calls' = Append(calls, CallRecord(est_in))
    /\ est_in' \in CallInputs
    /\ UNCHANGED <<rngVars, genVars>>

SpecCalls == InitCalls /\ [][EstimateNext]_vars

ErrorKinds ==
    {"InsufficientSamples", "DegenerateDistribution", "DegenerateRegression",
     "InvalidSample"}

\* C3: every call of estimate ends in a finite offset or in one of the typed
\* errors: never in NaN, an infinity or a panic
C3_FiniteOrError ==
    \A i \in 1..Len(calls) :
        calls[i].ret.cls = "num" \/ calls[i].ret.cls \in ErrorKinds

\* C4: estimate on a single sample reports InsufficientSamples
C4_SingleSample ==
    \A i \in 1..Len(calls) :
        Len(calls[i].samples) = 1 => calls[i].ret.cls = "InsufficientSamples"

\* C8: the alpha handed to generate_random_gamma_values is in [1, 4], so
\* d = alpha - 1/3 is positive
C8_AlphaClamped ==
    \A i \in 1..Len(calls) :
        /\ f64_le(MIN_ALPHA, calls[i].alpha)
        /\ f64_le(calls[i].alpha, MAX_ALPHA)
        /\ f64_lt(Zero(FALSE), f64_sub(calls[i].alpha, f64_div(One, Three)))

C8_Witness == calls # <<>> /\ is_nan(calls[1].alpha_raw)

\* the seed a call resolves: the caller's, or the first draw of LcgRng::new(0)
Resolved(seed) == IF seed.some THEN seed.val ELSE lcg_seed

====
